---- MODULE Spec2Model ----
(***************************************************************************)
(* Model of the two serverless request handlers of the release dashboard:  *)
(*   /api/releases  (lists the release projects of the workspace)          *)
(*   /api/tasks     (lists the upcoming tasks of the release projects)     *)
(* One behaviour is one invocation of one handler.  A step is the code     *)
(* that runs between two awaits (JavaScript runs it without interruption). *)
(***************************************************************************)
EXTENDS Integers, Sequences, FiniteSets, TLC

(***************************************************************************)
(* Bounds of the model.                                                    *)
(***************************************************************************)
\* longest project list drawn from the pool of varied projects
MaxProjects == 2
\* longest generated list of release projects (several fetch windows)
MaxBatchProjects == 12
\* clock ticks per calendar day (the code's clock counts milliseconds)
TicksPerDay == 2
\* clock ticks that may pass while one request is awaiting
MaxElapsed == 1

(***************************************************************************)
(* Strings are sequences of characters, so that toLowerCase and includes   *)
(* are computed and not assumed.                                           *)
(***************************************************************************)
UpperChars == <<"A","B","C","D","E","F","G","H","I","J","K","L","M",
                "N","O","P","Q","R","S","T","U","V","W","X","Y","Z">>
LowerChars == <<"a","b","c","d","e","f","g","h","i","j","k","l","m",
                "n","o","p","q","r","s","t","u","v","w","x","y","z">>

\* String.prototype.toLowerCase
ToLowerCase(s) ==
  [k \in 1..Len(s) |->
     IF \E u \in 1..Len(UpperChars) : UpperChars[u] = s[k]
     THEN LowerChars[CHOOSE u \in 1..Len(UpperChars) : UpperChars[u] = s[k]]
     ELSE s[k]]

\* String.prototype.includes
Includes(s, sub) ==
  \E k \in 0..(Len(s) - Len(sub)) : SubSeq(s, k + 1, k + Len(sub)) = sub

\* the keyword list of the tasks handler
TasksKeywords ==
  << <<"r","e","l","e","a","s","e">>, <<"e","p">>,
     <<"s","i","n","g","l","e">>, <<"a","l","b","u","m">>,
     <<"[","e","p">>, <<"[","s","i","n","g","l","e">>,
     <<"[","a","l","b","u","m">>, <<"[","r","e","l","e","a","s","e">> >>

\* the keyword list of the releases handler
ReleasesKeywords ==
  TasksKeywords \o
  << <<"E","P"," ","R","e","l","e","a","s","e">>,
     <<"S","i","n","g","l","e"," ","R","e","l","e","a","s","e">>,
     <<"A","l","b","u","m"," ","R","e","l","e","a","s","e">> >>

\* releaseKeywords.some(keyword => name.includes(keyword.toLowerCase()))
MatchesKeyword(name, keywords) ==
  LET lower == ToLowerCase(name)
  IN  \E k \in 1..Len(keywords) : Includes(lower, ToLowerCase(keywords[k]))

\* Array.prototype.filter, order kept
RECURSIVE FilterSeq(_, _)
FilterSeq(s, keep) ==
  IF s = << >> THEN << >>
  ELSE (IF Head(s) \in keep THEN <<Head(s)>> ELSE << >>) \o FilterSeq(Tail(s), keep)

\* the filter of the releases handler: archived projects are skipped first
ReleasesFilter(data) ==
  FilterSeq(data, {p \in {data[k] : k \in 1..Len(data)} :
                     ~p.archived /\ MatchesKeyword(p.name, ReleasesKeywords)})

\* the filter of the tasks handler: the name alone decides
TasksFilter(data) ==
  FilterSeq(data, {p \in {data[k] : k \in 1..Len(data)} :
                     MatchesKeyword(p.name, TasksKeywords)})

(***************************************************************************)
(* Dates.  A date-only string "YYYY-MM-DD" is the triple <<y, m, d>>; a    *)
(* missing date (null) is the empty tuple.  new Date(string) is midnight   *)
(* UTC of that day on the clock.                                           *)
(***************************************************************************)
NoDate == << >>

\* the day number (days since 1970-01-01) of a calendar date
DayNumber(date) ==
  LET y   == IF date[2] <= 2 THEN date[1] - 1 ELSE date[1]
      era == y \div 400
      yoe == y - era * 400
      mp  == IF date[2] > 2 THEN date[2] - 3 ELSE date[2] + 9
      doy == (153 * mp + 2) \div 5 + date[3] - 1
      doe == yoe * 365 + yoe \div 4 - yoe \div 100 + doy
  IN  era * 146097 + doe - 719468

\* new Date("YYYY-MM-DD").getTime(), in clock ticks
DateTime(date) == DayNumber(date) * TicksPerDay

\* 30 * 24 * 60 * 60 * 1000 milliseconds, in clock ticks
ThirtyDays == 30 * TicksPerDay

\* the due-soon test of one task, against the captured today
IsUpcoming(task, today, thirtyDaysFromNow) ==
  IF task.completed THEN FALSE
  ELSE IF task.due_on = NoDate THEN FALSE
  ELSE DateTime(task.due_on) >= today /\ DateTime(task.due_on) <= thirtyDaysFromNow

(***************************************************************************)
(* Sorting.  Array.prototype.sort is stable, and these comparators are     *)
(* consistent, so its result is determined: an element comes before        *)
(* another iff the comparator puts it first, or ties and it came first.    *)
(***************************************************************************)
\* faulty variant: a project without a due date is put first
ReleaseCompareUndatedFirst(a, b) ==
  IF a.due_date = NoDate /\ b.due_date = NoDate THEN 0
  ELSE IF a.due_date = NoDate THEN -1
  ELSE IF b.due_date = NoDate THEN 1
  ELSE DateTime(a.due_date) - DateTime(b.due_date)

\* the comparator of the releases handler
ReleaseCompare(a, b) ==
  IF a.due_date = NoDate /\ b.due_date = NoDate THEN 0
  ELSE IF a.due_date = NoDate THEN 1
  ELSE IF b.due_date = NoDate THEN -1
  ELSE DateTime(a.due_date) - DateTime(b.due_date)

\* the comparator of the tasks handler
TaskCompare(a, b) == DateTime(a.due_on) - DateTime(b.due_on)

\* Array.prototype.sort: compare[j, k] is the comparator's value for the
\* elements at positions j and k
StableSort(s, compare) ==
  LET Before(j, k) == \/ compare[j, k] < 0
                      \/ compare[j, k] = 0 /\ j < k
      Rank(k) == 1 + Cardinality({j \in 1..Len(s) : Before(j, k)})
  IN  [r \in 1..Len(s) |-> s[CHOOSE k \in 1..Len(s) : Rank(k) = r]]

\* releaseProjects.sort(...) of the releases handler
ReleaseSort(s) ==
  StableSort(s, [j \in 1..Len(s), k \in 1..Len(s) |-> ReleaseCompare(s[j], s[k])])

\* allTasks.sort(...) of the tasks handler
TaskSort(s) ==
  StableSort(s, [j \in 1..Len(s), k \in 1..Len(s) |-> TaskCompare(s[j], s[k])])

(***************************************************************************)
(* The upstream workspace.  A project carries the reply the upstream gives *)
(* to the fetch of its tasks: "ok" with a task list, "status" (a non-2xx   *)
(* reply) or "throw" (the fetch, or reading the reply, throws).            *)
(***************************************************************************)
Task(gid, due_on, completed) ==
  [gid |-> gid, due_on |-> due_on, completed |-> completed]

Project(gid, name, archived, due_date, kind, tasks) ==
  [gid |-> gid, name |-> name, archived |-> archived, due_date |-> due_date,
   reply |-> [kind |-> kind, tasks |-> tasks]]

\* the calendar day on which the request arrives
RequestDate == <<2024, 1, 1>>

Pool ==
  { Project(1, <<"E","P","I","C">>, FALSE, NoDate, "ok",
            << Task(11, <<2024, 1, 31>>, FALSE),
               Task(12, <<2024, 1, 1>>, FALSE),
               Task(13, <<2024, 1, 2>>, TRUE) >>),
    Project(2, <<"S","u","m","m","e","r"," ","S","i","n","g","l","e">>, FALSE,
            <<2024, 3, 1>>, "ok",
            << Task(21, <<2024, 1, 5>>, FALSE),
               Task(22, <<2024, 1, 2>>, FALSE),
               Task(23, <<2023, 12, 31>>, FALSE),
               Task(24, NoDate, FALSE) >>),
    Project(3, <<"[","A","L","B","U","M","]"," ","B","l","u","e">>, FALSE,
            <<2024, 1, 1>>, "ok",
            << Task(31, <<2024, 2, 1>>, FALSE),
               Task(32, <<2024, 1, 2>>, FALSE) >>),
    Project(4, <<"O","l","d"," ","R","e","l","e","a","s","e">>, TRUE,
            <<2024, 2, 1>>, "ok",
            << Task(41, <<2024, 1, 3>>, FALSE) >>),
    Project(5, <<"P","i","n","e","a","p","p","l","e">>, FALSE,
            <<2024, 1, 15>>, "ok",
            << Task(51, <<2024, 1, 4>>, FALSE) >>),
    Project(6, <<"D","e","b","u","t"," ","E","P">>, FALSE,
            <<2024, 3, 1>>, "status",
            << Task(61, <<2024, 1, 2>>, FALSE) >>) }

\* the project lists without repetition, of at most n projects of the pool
RECURSIVE PoolLists(_)
PoolLists(n) ==
  IF n = 0 THEN { << >> }
  ELSE LET shorter == PoolLists(n - 1)
       IN  shorter \cup
           { Append(s, p) : <<s, p>> \in
               { sp \in shorter \X Pool :
                   /\ Len(sp[1]) = n - 1
                   /\ \A k \in 1..Len(sp[1]) : sp[1][k].gid # sp[2].gid } }

\* the k-th project of a generated list: all are release projects; some
\* task fetches fail, and tasks of different projects share due dates
BatchProject(k) ==
  Project(100 + k, <<"E","P"," ">> \o <<LowerChars[k]>>, FALSE, NoDate,
          IF k % 4 = 3 THEN "status" ELSE IF k % 7 = 6 THEN "throw" ELSE "ok",
          << Task(1000 + k, <<2024, 1, 2 + (k % 2)>>, FALSE) >>)

BatchLists == { [k \in 1..n |-> BatchProject(k)] : n \in 4..MaxBatchProjects }

\* three release projects due on no date, on 2024-03-01 and on 2024-01-01
DueDateExample ==
  << CHOOSE p \in Pool : p.gid = 1, CHOOSE p \in Pool : p.gid = 2,
     CHOOSE p \in Pool : p.gid = 3 >>

\* every project list the model lets the upstream hold
ProjectLists == PoolLists(MaxProjects) \cup BatchLists \cup {DueDateExample}

(***************************************************************************)
(* The state of one invocation.                                            *)
(***************************************************************************)
VARIABLES
  handler,          \* "releases" or "tasks": the function invoked
  method,           \* req.method
  env,              \* process.env: which of the two values are set
  workspace,        \* the project list the upstream holds when it is asked,
                    \* with the reply it gives for the tasks of each project
  pc,               \* where the invocation is suspended
  clock,            \* the wall clock, in ticks
  elapsed,          \* ticks passed since the invocation began
  envRead,          \* process.env has been read
  projectFetches,   \* project fetches issued
  projectsReply,    \* how the project fetch went: "pending", "throw",
                    \* "status", "ok", "badjson", or "read" once it is read
  projectsData,     \* projectsData.data, once the reply is read
  releaseProjects,  \* the filtered project list
  today,            \* const today = new Date()
  thirtyDaysFromNow,
  i,                \* the loop index of the batch loop
  inflight,         \* positions of the task fetches not settled yet
  results,          \* position -> value of its promise, once it has settled
  outOfOrder,       \* some fetch settled while an earlier one was in flight
  allTasks,         \* the shared result collection
  issued,           \* positions of the task fetches issued, in order of issue
  windows,          \* sizes of the windows issued
  pauses,           \* pauses taken between windows
  responses         \* the responses sent through res

vars == << handler, method, env, workspace, pc, clock, elapsed, envRead,
           projectFetches, projectsReply, projectsData, releaseProjects, today,
           thirtyDaysFromNow, i, inflight, results, outOfOrder, allTasks, issued,
           windows, pauses, responses >>

\* const batchSize = 5
batchSize == 5

Methods == {"GET", "OPTIONS", "POST", "DELETE"}

\* the non-2xx statuses the upstream is let to answer with
ErrorStatuses == {401, 500}

NoResults == [g \in {} |-> << >>]

Init ==
  /\ handler \in {"releases", "tasks"}
  /\ method \in Methods
  /\ env \in [token : BOOLEAN, workspace : BOOLEAN]
  /\ workspace = << >>
  /\ pc = "start"
  /\ clock \in { DateTime(RequestDate) + t : t \in 0..(TicksPerDay - 1) }
  /\ elapsed = 0
  /\ envRead = FALSE
  /\ projectFetches = 0
  /\ projectsReply = "pending"
  /\ projectsData = << >>
  /\ releaseProjects = << >>
  /\ today = 0
  /\ thirtyDaysFromNow = 0
  /\ i = 0
  /\ inflight = {}
  /\ results = NoResults
  /\ outOfOrder = FALSE
  /\ allTasks = << >>
  /\ issued = << >>
  /\ windows = << >>
  /\ pauses = 0
  /\ responses = << >>

(***************************************************************************)
(* Responses.                                                              *)
(***************************************************************************)
\* res.status(200).end()
EndResponse == [status |-> 200, body |-> [none |-> TRUE]]

\* res.status(405).json({ error: 'Method not allowed' })
NotAllowedResponse == [status |-> 405, body |-> [error |-> "Method not allowed"]]

\* the catch block of either handler; a message is the tuple of its parts
ErrorResponse(message, now) ==
  [status |-> 500,
   body |-> [success |-> FALSE, error |-> message, timestamp |-> now]]

\* the success response of the releases handler
ReleasesResponse(projects, now) ==
  [status |-> 200,
   body |-> [success |-> TRUE, projects |-> projects, count |-> Len(projects),
             timestamp |-> now]]

\* the success response of the tasks handler
TasksResponse(tasks, processed, now) ==
  [status |-> 200,
   body |-> [success |-> TRUE, tasks |-> tasks, count |-> Len(tasks),
             projects_processed |-> processed, timestamp |-> now]]

Respond(r) == /\ responses' = Append(responses, r)
              /\ pc' = "done"

(***************************************************************************)
(* The entry of either handler, up to its first return or await.           *)
(***************************************************************************)
\* faulty variant: POST is let through as well
AllowedAlsoPost(m) == m \in {"GET", "POST"}

\* req.method === 'GET'
Allowed(m) == m = "GET"

\* faulty variant: && in place of ||
EnvMissingBoth(e) == ~e.token /\ ~e.workspace

\* !ASANA_TOKEN || !WORKSPACE_ID
EnvMissing(e) == ~e.token \/ ~e.workspace

\* if (req.method === 'OPTIONS')
Preflight ==
  /\ pc = "start"
  /\ method = "OPTIONS"
  /\ Respond(EndResponse)
  /\ UNCHANGED << handler, method, env, workspace, clock, elapsed, envRead,
                  projectFetches, projectsReply, projectsData,
                  releaseProjects, today, thirtyDaysFromNow, i, inflight,
                  results, outOfOrder, allTasks, issued, windows, pauses >>

\* if (req.method !== 'GET')
MethodNotAllowed ==
  /\ pc = "start"
  /\ method # "OPTIONS"
  /\ ~Allowed(method)
  /\ Respond(NotAllowedResponse)
  /\ UNCHANGED << handler, method, env, workspace, clock, elapsed, envRead,
                  projectFetches, projectsReply, projectsData,
                  releaseProjects, today, thirtyDaysFromNow, i, inflight,
                  results, outOfOrder, allTasks, issued, windows, pauses >>

\* if (!ASANA_TOKEN || !WORKSPACE_ID) throw ...; caught by the handler's catch
MissingEnv ==
  /\ pc = "start"
  /\ method # "OPTIONS"
  /\ Allowed(method)
  /\ envRead' = TRUE
  /\ EnvMissing(env)
  /\ Respond(ErrorResponse(<<"Missing environment variables">>, clock))
  /\ UNCHANGED << handler, method, env, workspace, clock, elapsed,
                  projectFetches, projectsReply, projectsData,
                  releaseProjects, today, thirtyDaysFromNow, i, inflight,
                  results, outOfOrder, allTasks, issued, windows, pauses >>

\* const projectsResponse = await fetch(.../projects?workspace=...)
FetchProjects ==
  /\ pc = "start"
  /\ method # "OPTIONS"
  /\ Allowed(method)
  /\ envRead' = TRUE
  /\ ~EnvMissing(env)
  /\ projectFetches' = projectFetches + 1
  /\ workspace' \in ProjectLists
  /\ pc' = "awaitProjects"
  /\ UNCHANGED << handler, method, env, clock, elapsed, projectsReply,
                  projectsData, releaseProjects, today, thirtyDaysFromNow, i,
                  inflight, results, outOfOrder, allTasks, issued, windows,
                  pauses, responses >>

\* time passes while the invocation is suspended in an await
Tick ==
  /\ pc \in {"awaitProjects", "awaitProjectsJson", "awaitBatch", "pause"}
  /\ elapsed < MaxElapsed
  /\ clock' = clock + 1
  /\ elapsed' = elapsed + 1
  /\ UNCHANGED << handler, method, env, workspace, pc, envRead,
                  projectFetches, projectsReply, projectsData,
                  releaseProjects, today, thirtyDaysFromNow, i, inflight,
                  results, outOfOrder, allTasks, issued, windows, pauses,
                  responses >>

(***************************************************************************)
(* The project fetch settles.                                              *)
(***************************************************************************)
\* the fetch rejects: the catch block answers
ProjectsFetchThrows ==
  /\ pc = "awaitProjects"
  /\ Respond(ErrorResponse(<<"fetch failed">>, clock))
  /\ projectsReply' = "throw"
  /\ UNCHANGED << handler, method, env, workspace, clock, elapsed, envRead,
                  projectFetches, projectsData, releaseProjects, today,
                  thirtyDaysFromNow, i, inflight, results, outOfOrder,
                  allTasks, issued, windows, pauses >>

\* faulty variant: the status of the reply is not looked at
ProjectsFetchNotOkIgnored ==
  /\ pc = "awaitProjects"
  /\ projectsReply' = "status"
  /\ pc' = "awaitProjectsJson"
  /\ UNCHANGED << handler, method, env, workspace, clock, elapsed, envRead,
                  projectFetches, projectsData, releaseProjects, today,
                  thirtyDaysFromNow, i, inflight, results, outOfOrder, allTasks,
                  issued, windows, pauses, responses >>

\* if (!projectsResponse.ok) throw new Error(`Asana API error: ...`)
ProjectsFetchNotOk ==
  /\ pc = "awaitProjects"
  /\ \E status \in ErrorStatuses :
       Respond(ErrorResponse(<<"Asana API error: ", status>>, clock))
  /\ projectsReply' = "status"
  /\ UNCHANGED << handler, method, env, workspace, clock, elapsed, envRead,
                  projectFetches, projectsData, releaseProjects, today,
                  thirtyDaysFromNow, i, inflight, results, outOfOrder,
                  allTasks, issued, windows, pauses >>

\* the reply is ok: const projectsData = await projectsResponse.json()
ProjectsFetchOk ==
  /\ pc = "awaitProjects"
  /\ pc' = "awaitProjectsJson"
  /\ projectsReply' = "ok"
  /\ UNCHANGED << handler, method, env, workspace, clock, elapsed, envRead,
                  projectFetches, projectsData, releaseProjects, today,
                  thirtyDaysFromNow, i, inflight, results, outOfOrder,
                  allTasks, issued, windows, pauses, responses >>

\* reading the reply throws (not JSON): the catch block answers
ProjectsJsonThrows ==
  /\ pc = "awaitProjectsJson"
  /\ Respond(ErrorResponse(<<"Unexpected token">>, clock))
  /\ projectsReply' = "badjson"
  /\ UNCHANGED << handler, method, env, workspace, clock, elapsed, envRead,
                  projectFetches, projectsData, releaseProjects, today,
                  thirtyDaysFromNow, i, inflight, results, outOfOrder,
                  allTasks, issued, windows, pauses >>

(***************************************************************************)
(* The releases handler, from the reply to the response.                   *)
(***************************************************************************)
ReleasesJsonOk ==
  /\ pc = "awaitProjectsJson"
  /\ handler = "releases"
  /\ projectsData' = workspace
  /\ \E filtered \in {ReleasesFilter(workspace)} :
       releaseProjects' = ReleaseSort(filtered)
  /\ Respond(ReleasesResponse(releaseProjects', clock))
  /\ projectsReply' = "read"
  /\ UNCHANGED << handler, method, env, workspace, clock, elapsed, envRead,
                  projectFetches, today, thirtyDaysFromNow, i, inflight,
                  results, outOfOrder, allTasks, issued, windows, pauses >>

(***************************************************************************)
(* The tasks handler: the batch loop.  Task fetches are named by the       *)
(* position of their project in releaseProjects.                           *)
(***************************************************************************)
Min(a, b) == IF a < b THEN a ELSE b

\* releaseProjects.slice(i, i + batchSize), as positions
Batch(idx, n) == [j \in 1..(Min(idx + batchSize, n) - idx) |-> idx + j]

\* faulty variant: <= in place of <
PauseNeededInclusive(idx, n) == idx + batchSize <= n

\* if (i + batchSize < releaseProjects.length)
PauseNeeded(idx, n) == idx + batchSize < n

\* the value of the promise of one project whose reply is ok:
\* the upcoming tasks, each with the fields of its project
UpcomingTasks(project, now, limit) ==
  LET tasks == project.reply.tasks
      kept  == FilterSeq(tasks, {t \in {tasks[k] : k \in 1..Len(tasks)} :
                                   IsUpcoming(t, now, limit)})
  IN  [k \in 1..Len(kept) |->
         [gid |-> kept[k].gid, due_on |-> kept[k].due_on,
          completed |-> kept[k].completed,
          project_name |-> project.name, project_gid |-> project.gid,
          project_due_date |-> project.due_date]]

\* await Promise.all(batchPromises): the values in the order of the batch
PromiseAll(batch, values) == [j \in 1..Len(batch) |-> values[batch[j]]]

\* batchResults.forEach(tasks => allTasks.push(...tasks))
RECURSIVE PushAll(_, _)
PushAll(tasks, batchResults) ==
  IF batchResults = << >> THEN tasks
  ELSE PushAll(tasks \o Head(batchResults), Tail(batchResults))

\* the loop head at index idx: either the next window is issued (every
\* fetch of it, before anything else runs) or the loop ends, the tasks
\* are sorted and the response is sent
EnterLoop(idx, projects, tasks) ==
  /\ i' = idx
  /\ IF idx < Len(projects)
     THEN LET batch == Batch(idx, Len(projects))
          IN  /\ inflight' = inflight \cup {batch[j] : j \in 1..Len(batch)}
              /\ issued' = issued \o batch
              /\ windows' = Append(windows, Len(batch))
              /\ results' = NoResults
              /\ allTasks' = tasks
              /\ pc' = "awaitBatch"
              /\ UNCHANGED responses
     ELSE /\ allTasks' = TaskSort(tasks)
          /\ Respond(TasksResponse(allTasks', Len(projects), clock))
          /\ UNCHANGED << inflight, issued, windows, results >>

\* the reply is read: filter, capture today, enter the loop
TasksJsonOk ==
  /\ pc = "awaitProjectsJson"
  /\ handler = "tasks"
  /\ projectsData' = workspace
  /\ releaseProjects' = TasksFilter(workspace)
  /\ today' = clock
  /\ thirtyDaysFromNow' = clock + ThirtyDays
  /\ EnterLoop(0, releaseProjects', << >>)
  /\ projectsReply' = "read"
  /\ UNCHANGED << handler, method, env, workspace, clock, elapsed, envRead,
                  projectFetches, pauses, outOfOrder >>

\* faulty variant: each branch pushes its tasks itself, as soon as it has them
SettleAndPush(k, value) ==
  /\ inflight' = inflight \ {k}
  /\ results' = (k :> << >>) @@ results
  /\ allTasks' = allTasks \o value
  /\ outOfOrder' = (outOfOrder \/ \E j \in inflight : j < k)
  /\ UNCHANGED << handler, method, env, workspace, pc, clock, elapsed,
                  envRead, projectFetches, projectsReply, projectsData,
                  releaseProjects, today, thirtyDaysFromNow, i, issued,
                  windows, pauses, responses >>

\* the promise of the project at position k resolves with value
Settle(k, value) ==
  /\ inflight' = inflight \ {k}
  /\ results' = (k :> value) @@ results
  /\ outOfOrder' = (outOfOrder \/ \E j \in inflight : j < k)
  /\ UNCHANGED << handler, method, env, workspace, pc, clock, elapsed,
                  envRead, projectFetches, projectsReply, projectsData,
                  releaseProjects, today, thirtyDaysFromNow, i, allTasks,
                  issued, windows, pauses, responses >>

\* the task fetch of one project answers ok and its reply is read
TaskFetchOk ==
  /\ pc = "awaitBatch"
  /\ \E k \in inflight :
       /\ releaseProjects[k].reply.kind = "ok"
       /\ Settle(k, UpcomingTasks(releaseProjects[k], today, thirtyDaysFromNow))

\* faulty variant: a non-2xx reply throws, and the handler's catch answers
TaskFetchNotOkFatal ==
  /\ pc = "awaitBatch"
  /\ \E k \in inflight :
       /\ releaseProjects[k].reply.kind = "status"
       /\ inflight' = inflight \ {k}
       /\ Respond(ErrorResponse(<<"Asana API error: ", 500>>, clock))
  /\ UNCHANGED << handler, method, env, workspace, clock, elapsed, envRead,
                  projectFetches, projectsReply, projectsData, releaseProjects,
                  today, thirtyDaysFromNow, i, results, outOfOrder, allTasks,
                  issued, windows, pauses >>

\* if (!tasksResponse.ok) { console.warn(...); return []; }
TaskFetchNotOk ==
  /\ pc = "awaitBatch"
  /\ \E k \in inflight :
       /\ releaseProjects[k].reply.kind = "status"
       /\ Settle(k, << >>)

\* faulty variant: no catch around the fetch of one project, so that the
\* handler's catch answers while the other fetches of the window go on
TaskFetchThrowsUncaught ==
  /\ pc = "awaitBatch"
  /\ \E k \in inflight :
       /\ releaseProjects[k].reply.kind = "throw"
       /\ inflight' = inflight \ {k}
       /\ Respond(ErrorResponse(<<"fetch failed">>, clock))
  /\ UNCHANGED << handler, method, env, workspace, clock, elapsed, envRead,
                  projectFetches, projectsReply, projectsData, releaseProjects,
                  today, thirtyDaysFromNow, i, results, outOfOrder, allTasks,
                  issued, windows, pauses >>

\* catch (error) { console.warn(...); return []; }
TaskFetchThrows ==
  /\ pc = "awaitBatch"
  /\ \E k \in inflight :
       /\ releaseProjects[k].reply.kind = "throw"
       /\ Settle(k, << >>)

\* Promise.all resolves; the results are pushed; then a pause ...
BatchDonePause ==
  /\ pc = "awaitBatch"
  /\ inflight = {}
  /\ PauseNeeded(i, Len(releaseProjects))
  /\ allTasks' = PushAll(allTasks,
                   PromiseAll(Batch(i, Len(releaseProjects)), results))
  /\ pauses' = pauses + 1
  /\ pc' = "pause"
  /\ UNCHANGED << handler, method, env, workspace, clock, elapsed, envRead,
                  projectFetches, projectsReply, projectsData,
                  releaseProjects, today, thirtyDaysFromNow, i, inflight,
                  results, outOfOrder, issued, windows, responses >>

\* ... or, without a pause, i += batchSize and the loop head
BatchDoneNoPause ==
  /\ pc = "awaitBatch"
  /\ inflight = {}
  /\ ~PauseNeeded(i, Len(releaseProjects))
  /\ \E pushed \in {PushAll(allTasks,
                       PromiseAll(Batch(i, Len(releaseProjects)), results))} :
       EnterLoop(i + batchSize, releaseProjects, pushed)
  /\ UNCHANGED << handler, method, env, workspace, clock, elapsed, envRead,
                  projectFetches, projectsReply, projectsData,
                  releaseProjects, today, thirtyDaysFromNow, pauses,
                  outOfOrder >>

\* the pause is over: i += batchSize and the loop head
PauseDone ==
  /\ pc = "pause"
  /\ EnterLoop(i + batchSize, releaseProjects, allTasks)
  /\ UNCHANGED << handler, method, env, workspace, clock, elapsed, envRead,
                  projectFetches, projectsReply, projectsData,
                  releaseProjects, today, thirtyDaysFromNow, pauses,
                  outOfOrder >>

Next ==
  \/ Preflight
  \/ MethodNotAllowed
  \/ MissingEnv
  \/ FetchProjects
  \/ Tick
  \/ ProjectsFetchThrows
  \/ ProjectsFetchNotOk
  \/ ProjectsFetchOk
  \/ ProjectsJsonThrows
  \/ ReleasesJsonOk
  \/ TasksJsonOk
  \/ TaskFetchOk
  \/ TaskFetchNotOk
  \/ TaskFetchThrows
  \/ BatchDonePause
  \/ BatchDoneNoPause
  \/ PauseDone

Spec == Init /\ [][Next]_vars

\* every awaited fetch and timer eventually settles, and the continuation runs
FairSpec == Spec /\ WF_vars(Next)

(***************************************************************************)
(* Vocabulary of the properties.                                           *)
(***************************************************************************)
Done == pc = "done"

\* the one response of a finished invocation
Sent == responses[1]

IsSuccess(r) ==
  /\ r.status = 200
  /\ "success" \in DOMAIN r.body
  /\ r.body.success = TRUE

IsError(r) ==
  /\ r.status = 500
  /\ DOMAIN r.body = {"success", "error", "timestamp"}
  /\ r.body.success = FALSE

\* the tasks handler has read the project list and is in, or past, its loop
TasksUnderWay == handler = "tasks" /\ projectsReply = "read"

TasksSucceeded == TasksUnderWay /\ Done /\ Len(responses) = 1 /\ IsSuccess(Sent)

ReleasesSucceeded ==
  handler = "releases" /\ projectsReply = "read" /\ Done
  /\ Len(responses) = 1 /\ IsSuccess(Sent)

SeqRange(s) == {s[k] : k \in 1..Len(s)}

\* the positions of the release projects whose task fetch fails
FailedPositions ==
  {k \in 1..Len(releaseProjects) : releaseProjects[k].reply.kind # "ok"}

(***************************************************************************)
(* C1.  Tasks handler, GET, configuration present, project list read:     *)
(* whatever task fetches fail, the invocation ends with one 200            *)
(* success:true response and never with a 500; the task list holds no      *)
(* task of a project whose fetch failed and every task that passes the     *)
(* handler's filter of every project whose fetch succeeded.                *)
(***************************************************************************)
C1_PerProjectFailureIsSwallowed ==
  TasksUnderWay =>
    /\ \A n \in 1..Len(responses) : responses[n].status # 500
    /\ Done =>
         /\ Len(responses) = 1
         /\ IsSuccess(Sent)
         /\ \A k \in 1..Len(releaseProjects) :
              LET project == releaseProjects[k]
              IN  IF k \in FailedPositions
                  THEN \A t \in SeqRange(Sent.body.tasks) :
                         /\ t.project_gid # project.gid
                         /\ \A u \in SeqRange(project.reply.tasks) : t.gid # u.gid
                  ELSE \A u \in SeqRange(project.reply.tasks) :
                         IsUpcoming(u, today, thirtyDaysFromNow) =>
                           \E t \in SeqRange(Sent.body.tasks) :
                             t.gid = u.gid /\ t.project_gid = project.gid

\* a finished request in which one project's fetch failed and another's tasks are listed
C1_Witness ==
  /\ TasksSucceeded
  /\ FailedPositions # {}
  /\ \E k \in 1..Len(releaseProjects) :
       /\ releaseProjects[k].reply.kind = "ok"
       /\ \E t \in SeqRange(Sent.body.tasks) : t.project_gid = releaseProjects[k].gid

(***************************************************************************)
(* C2.  Either handler: when the project fetch answers a non-2xx status    *)
(* or throws (the fetch, or the reading of its reply), the invocation ends *)
(* with one 500 response carrying success:false, an error message and a    *)
(* timestamp; no success response is sent and no task fetch is issued.     *)
(***************************************************************************)
C2_ProjectFetchFailureAborts ==
  projectsReply \in {"status", "throw", "badjson"} =>
    /\ Done
    /\ Len(responses) = 1
    /\ IsError(Sent)
    /\ issued = << >>
    /\ inflight = {}

C2_Witness ==
  /\ handler = "tasks"
  /\ projectsReply = "status"
  /\ Done
  /\ Sent.body.error = <<"Asana API error: ", 401>>

(***************************************************************************)
(* C3.  Either handler: a GET request with the token or the workspace      *)
(* identifier missing is answered 500 with the message "Missing            *)
(* environment variables", and no project fetch and no task fetch is       *)
(* issued at any point of the invocation.                                  *)
(***************************************************************************)
C3_MissingConfiguration ==
  (method = "GET" /\ (~env.token \/ ~env.workspace)) =>
    /\ projectFetches = 0
    /\ issued = << >>
    /\ pc \in {"start", "done"}
    /\ Done =>
         /\ Len(responses) = 1
         /\ IsError(Sent)
         /\ Sent.body.error = <<"Missing environment variables">>

C3_Witness ==
  /\ method = "GET"
  /\ env.token
  /\ ~env.workspace
  /\ Done
  /\ Len(responses) = 1

(***************************************************************************)
(* C4.  Either handler: a request whose method is not GET is answered      *)
(* with no further processing, whatever the configuration: OPTIONS gets    *)
(* 200 without a body, any other method gets 405; the configuration is     *)
(* not read and no fetch is issued.                                        *)
(***************************************************************************)
C4_NonGetIsAnsweredAtOnce ==
  method # "GET" =>
    /\ ~envRead
    /\ projectFetches = 0
    /\ issued = << >>
    /\ pc \in {"start", "done"}
    /\ Done =>
         /\ Len(responses) = 1
         /\ IF method = "OPTIONS"
            THEN Sent.status = 200 /\ DOMAIN Sent.body = {"none"}
            ELSE Sent.status = 405 /\ DOMAIN Sent.body = {"error"}

C4_Witness ==
  /\ method = "POST"
  /\ env.token /\ env.workspace
  /\ Done
  /\ Sent.status = 405

(***************************************************************************)
(* C5.  Tasks handler: the task fetches of the N release projects are      *)
(* issued one per project, in list order, in consecutive windows of 5      *)
(* (the last holds the remainder); a window is issued only when no fetch   *)
(* of an earlier window is in flight, so at most 5 are in flight; a pause  *)
(* follows every window but the last.  N = 12: windows 5, 5, 2; 2 pauses.  *)
(***************************************************************************)
C5_WindowsOfFive ==
  TasksUnderWay =>
    LET N == Len(releaseProjects)
        W == Len(windows)
    IN  /\ Cardinality(inflight) <= 5
        /\ issued = [k \in 1..Len(issued) |-> k]
        /\ Len(issued) <= N
        /\ \A w \in 1..W : windows[w] = Min(5, N - 5 * (w - 1)) /\ windows[w] >= 1
        /\ \A k \in inflight : 5 * (W - 1) < k /\ k <= 5 * W
        /\ pc = "awaitBatch" => pauses = W - 1
        /\ pc = "pause" => pauses = W /\ inflight = {} /\ Len(issued) < N
        /\ Done =>
             /\ Len(issued) = N
             /\ inflight = {}
             /\ W = (N + 4) \div 5
             /\ pauses = IF W = 0 THEN 0 ELSE W - 1
             /\ N = 12 => windows = <<5, 5, 2>> /\ pauses = 2

C5_Witness ==
  /\ TasksSucceeded
  /\ Len(releaseProjects) = 12
  /\ windows = <<5, 5, 2>>
  /\ pauses = 2
  /\ Sent.body.projects_processed = 12

\* the calendar day of the captured today
TodayDay == today \div TicksPerDay

\* due on one of the days from today to 30 days later, and not completed
DueSoonByDay(task) ==
  /\ ~task.completed
  /\ task.due_on # NoDate
  /\ DayNumber(task.due_on) >= TodayDay
  /\ DayNumber(task.due_on) <= TodayDay + 30

(***************************************************************************)
(* C6.  Tasks handler: a task of a successfully fetched project is in the  *)
(* response iff it is not completed, has a due date, and its due date is   *)
(* one of the 31 days from the day of the request to 30 days later, both   *)
(* included.                                                               *)
(***************************************************************************)
C6_DueWithinThirtyDaysInclusive ==
  TasksSucceeded =>
    \A k \in 1..Len(releaseProjects) :
      releaseProjects[k].reply.kind = "ok" =>
        \A u \in SeqRange(releaseProjects[k].reply.tasks) :
          (\E t \in SeqRange(Sent.body.tasks) : t.gid = u.gid) <=> DueSoonByDay(u)

\* a release project, as the classification rule states it
IsReleaseProject(p, keywords) ==
  /\ ~p.archived
  /\ \E k \in 1..Len(keywords) :
       Includes(ToLowerCase(p.name), ToLowerCase(keywords[k]))

(***************************************************************************)
(* C7.  Either handler: the release projects are exactly the projects      *)
(* that are not archived and whose lower-cased name contains a lower-cased *)
(* keyword.  The releases handler lists exactly those; the tasks handler   *)
(* fetches the tasks of, and counts in projects_processed, exactly those.  *)
(***************************************************************************)
C7_ReleaseProjectsOnly ==
  /\ ReleasesSucceeded =>
       {p.gid : p \in SeqRange(Sent.body.projects)} =
         {p.gid : p \in {q \in SeqRange(projectsData) :
                           IsReleaseProject(q, ReleasesKeywords)}}
  /\ TasksSucceeded =>
       LET release == {q \in SeqRange(projectsData) :
                         IsReleaseProject(q, TasksKeywords)}
       IN  /\ {releaseProjects[k].gid : k \in SeqRange(issued)} =
                {p.gid : p \in release}
           /\ Sent.body.projects_processed = Cardinality(release)

\* the due dates of a project list, in its order
DueDates(projects) == [k \in 1..Len(projects) |-> projects[k].due_date]

(***************************************************************************)
(* C8.  Releases handler, success response: the projects are in ascending  *)
(* order of due date, those without a due date after all those with one;   *)
(* the list is a permutation of the release projects and count is its      *)
(* length.  Due dates [none, 2024-03-01, 2024-01-01] come out as           *)
(* [2024-01-01, 2024-03-01, none].                                         *)
(***************************************************************************)
C8_ReleasesSortedByDueDate ==
  ReleasesSucceeded =>
    LET out == Sent.body.projects
        rel == ReleasesFilter(projectsData)
    IN  /\ \A a, b \in 1..Len(out) :
             a < b =>
               /\ out[a].due_date = NoDate => out[b].due_date = NoDate
               /\ (out[a].due_date # NoDate /\ out[b].due_date # NoDate) =>
                    DayNumber(out[a].due_date) <= DayNumber(out[b].due_date)
        /\ Len(out) = Len(rel)
        /\ \A p \in SeqRange(rel) \cup SeqRange(out) :
             Cardinality({k \in 1..Len(out) : out[k] = p}) =
               Cardinality({k \in 1..Len(rel) : rel[k] = p})
        /\ Sent.body.count = Len(out)
        /\ DueDates(rel) = <<NoDate, <<2024, 3, 1>>, <<2024, 1, 1>>>> =>
             DueDates(out) = <<<<2024, 1, 1>>, <<2024, 3, 1>>, NoDate>>

C8_Witness ==
  /\ ReleasesSucceeded
  /\ DueDates(ReleasesFilter(projectsData)) = <<NoDate, <<2024, 3, 1>>, <<2024, 1, 1>>>>
  /\ DueDates(Sent.body.projects) = <<<<2024, 1, 1>>, <<2024, 3, 1>>, NoDate>>

\* what each project contributes, in the order of the project list
RECURSIVE InProjectOrder(_, _, _)
InProjectOrder(projects, now, limit) ==
  IF projects = << >> THEN << >>
  ELSE (IF Head(projects).reply.kind = "ok"
        THEN UpcomingTasks(Head(projects), now, limit)
        ELSE << >>) \o InProjectOrder(Tail(projects), now, limit)

(***************************************************************************)
(* C9.  Tasks handler: for fixed upstream replies the task list of the     *)
(* success response is one and the same sequence whatever the order in     *)
(* which the fetches of a window complete: it is the list, sorted          *)
(* ascending by due date, of the tasks taken in project order.  While a    *)
(* fetch of a window is in flight, no task of that window is in the        *)
(* shared collection.                                                      *)
(***************************************************************************)
C9_CompletionOrderNeverShows ==
  /\ TasksSucceeded =>
       LET out == Sent.body.tasks
       IN  /\ out = TaskSort(InProjectOrder(releaseProjects, today, thirtyDaysFromNow))
           /\ \A a, b \in 1..Len(out) :
                a < b => DayNumber(out[a].due_on) <= DayNumber(out[b].due_on)
  /\ (TasksUnderWay /\ inflight # {}) =>
       \A t \in SeqRange(allTasks) :
         \E k \in 1..i : releaseProjects[k].gid = t.project_gid

\* a window completed out of order, and the list holds tasks of two
\* projects with one due date
C9_Witness ==
  /\ TasksSucceeded
  /\ outOfOrder
  /\ \E t, u \in SeqRange(Sent.body.tasks) :
       t.due_on = u.due_on /\ t.project_gid # u.project_gid

(***************************************************************************)
(* C10.  Every invocation of either handler in which each issued fetch     *)
(* and timer settles sends exactly one response, and the response is the   *)
(* last step: nothing is in flight when it is sent, and nothing is issued  *)
(* or sent after it.                                                       *)
(***************************************************************************)
C10_ExactlyOneResponseAtTheEnd ==
  /\ [](/\ Len(responses) <= 1
        /\ Len(responses) = 1 => (Done /\ inflight = {}))
  /\ [][Len(responses) = 1 =>
          UNCHANGED << responses, issued, projectFetches, inflight >>]_vars
  /\ <>(Len(responses) = 1)

C10_Witness ==
  /\ TasksSucceeded
  /\ Len(windows) >= 2
  /\ FailedPositions # {}

====
